---- MODULE Spec2Model ----
(***************************************************************************)
(* Model of the civic-issue image analyzer: the /analyze endpoint of       *)
(* main.py and CivicIssueAnalyzer of analyzer.py.                          *)
(*                                                                         *)
(* Representation.                                                         *)
(*  - A Python str is a sequence of pieces; a piece is one word or one     *)
(*    separator character (" ", "_", "\n").  strip, replace, lower and     *)
(*    capitalize act on the pieces as the str methods act on the text.     *)
(*  - A JSON value is a record [t, s, n, items] tagged by t.               *)
(*  - A Python dict is a function from its keys to its values.             *)
(*  - The text the model returns is a sequence of lexical tokens.          *)
(*  - A confidence is a number of hundredths (92 stands for 0.92).         *)
(***************************************************************************)
EXTENDS Integers, Sequences, FiniteSets, TLC

\* ------------------------------------------------------------------ bounds

\* Longest run of whitespace put around a model response.
MaxPad == 1

\* Confidences sampled: -50, 0, 50, ... in steps of 50 hundredths.
ConfSteps == 4

\* ------------------------------------------------------------- Python str

\* The pieces of the str whose text is w.
Str(w) ==
  CASE w = "issue_type"      -> <<"issue", "_", "type">>
    [] w = "waste_dump"      -> <<"waste", "_", "dump">>
    [] w = "spaceship_crash" -> <<"spaceship", "_", "crash">>
    [] w = "unknown_issue"   -> <<"unknown", "_", "issue">>
    [] w = ""                -> <<>>
    [] OTHER                 -> <<w>>

IsSpace(p) == p \in {" ", "\n"}

RECURSIVE lstrip(_)
lstrip(s) == IF s # <<>> /\ IsSpace(Head(s)) THEN lstrip(Tail(s)) ELSE s

RECURSIVE rstrip(_)
rstrip(s) ==
  IF s # <<>> /\ IsSpace(s[Len(s)]) THEN rstrip(SubSeq(s, 1, Len(s) - 1)) ELSE s

\* str.strip()
strip(s) == rstrip(lstrip(s))

\* str.replace("_", " ")
replace_underscore(s) == [i \in 1..Len(s) |-> IF s[i] = "_" THEN " " ELSE s[i]]

\* The lower-case form of a word; a word not listed has no upper-case letter.
LowerWord(w) ==
  CASE w = "HIGH"         -> "high"
    [] w = "Pothole"      -> "pothole"
    [] w = "Damaged"      -> "damaged"
    [] w = "Road"         -> "road"
    [] w = "Garbage"      -> "garbage"
    [] w = "Waste"        -> "waste"
    [] w = "Dump"         -> "dump"
    [] w = "Streetlight"  -> "streetlight"
    [] w = "Water"        -> "water"
    [] w = "Leakage"      -> "leakage"
    [] w = "Graffiti"     -> "graffiti"
    [] w = "Sewage"       -> "sewage"
    [] w = "Overflow"     -> "overflow"
    [] w = "Fallen"       -> "fallen"
    [] w = "Tree"         -> "tree"
    [] w = "Blocked"      -> "blocked"
    [] w = "Drainage"     -> "drainage"
    [] w = "Unidentified" -> "unidentified"
    [] w = "Issue"        -> "issue"
    [] w = "Spaceship"    -> "spaceship"
    [] w = "Large"        -> "large"
    [] w = ".JPG"         -> ".jpg"
    [] OTHER              -> w

\* A word with its first character in upper case.
UpperFirst(w) ==
  CASE w = "spaceship" -> "Spaceship"
    [] w = "pothole"   -> "Pothole"
    [] w = "waste"     -> "Waste"
    [] w = "graffiti"  -> "Graffiti"
    [] w = "unknown"   -> "Unknown"
    [] OTHER           -> w

\* str.lower()
lower(s) == [i \in 1..Len(s) |-> LowerWord(s[i])]

\* str.capitalize(): first character upper case, the rest lower case.
capitalize(s) ==
  [i \in 1..Len(s) |-> IF i = 1 THEN UpperFirst(LowerWord(s[i])) ELSE LowerWord(s[i])]

\* sub in s, for two strs: sub occurs in s as a run of consecutive pieces.
Contains(s, sub) ==
  \E i \in 1..(Len(s) - Len(sub) + 1) : SubSeq(s, i, i + Len(sub) - 1) = sub

\* ------------------------------------------------------------ JSON values

JStr(s)   == [t |-> "str",  s |-> s,    n |-> 0, items |-> <<>>]
JNum(n)   == [t |-> "num",  s |-> <<>>, n |-> n, items |-> <<>>]
JNull     == [t |-> "null", s |-> <<>>, n |-> 0, items |-> <<>>]
JList(xs) == [t |-> "list", s |-> <<>>, n |-> 0, items |-> xs]

IsStr(v) == v.t = "str"

\* ------------------------------------------------- text of a model response

\* Lexical tokens: a whitespace character, the code-fence marker (three backticks), a bare word,
\* the punctuation of an object, one member ("key": value) of an object, and
\* a complete JSON value that is not an object.
Ws(c)          == [k |-> "ws",     w |-> c,     key |-> "",  v |-> JNull]
Fence          == [k |-> "fence",  w |-> "fence", key |-> "",  v |-> JNull]
Word(w)        == [k |-> "word",   w |-> w,     key |-> "",  v |-> JNull]
LBrace         == [k |-> "{",      w |-> "{",   key |-> "",  v |-> JNull]
RBrace         == [k |-> "}",      w |-> "}",   key |-> "",  v |-> JNull]
Comma          == [k |-> ",",      w |-> ",",   key |-> "",  v |-> JNull]
Member(key, v) == [k |-> "member", w |-> "",    key |-> key, v |-> v]
Value(v)       == [k |-> "value",  w |-> "",    key |-> "",  v |-> v]

RECURSIVE text_lstrip(_)
text_lstrip(t) == IF t # <<>> /\ Head(t).k = "ws" THEN text_lstrip(Tail(t)) ELSE t

RECURSIVE text_rstrip(_)
text_rstrip(t) ==
  IF t # <<>> /\ t[Len(t)].k = "ws"
  THEN text_rstrip(SubSeq(t, 1, Len(t) - 1))
  ELSE t

\* response_text.strip()
text_strip(t) == text_rstrip(text_lstrip(t))

\* .replace(fence + "json", ""): every occurrence, left to right.
RECURSIVE remove_fence_json(_)
remove_fence_json(t) ==
  IF t = <<>> THEN <<>>
  ELSE IF Len(t) >= 2 /\ t[1].k = "fence" /\ t[2].k = "word" /\ t[2].w = "json"
       THEN remove_fence_json(SubSeq(t, 3, Len(t)))
       ELSE <<Head(t)>> \o remove_fence_json(Tail(t))

\* .replace(fence, "")
remove_fence(t) == SelectSeq(t, LAMBDA x : x.k # "fence")

\* clean_text with the fence removed but not the language tag after it.
CleanTextKeepingTag(response_text) ==
  text_strip(remove_fence(text_strip(response_text)))

\* clean_text of _validate_ai_response
CleanText(response_text) ==
  text_strip(remove_fence(remove_fence_json(text_strip(response_text))))

\* ----------------------------------------------------- results of a call

Return(v)        == [raised |-> FALSE, value |-> v]
Raise(type, msg) == [raised |-> TRUE, exc |-> [type |-> type, msg |-> msg]]

\* A message: the literal text of its f-string, the name formatted into it
\* (a key, a type, an attribute; "" if none) and the value formatted into it,
\* with what that value is: "nothing", the "response_text", the parsed
\* "data", a "type" name or the text of an "exception".
Format(fmt, name, shows, shown) ==
  [fmt |-> fmt, name |-> name, shows |-> shows, shown |-> shown]
Message(fmt) == Format(fmt, "", "nothing", <<>>)

\* ------------------------------------------------------------- json.loads

Dict(d) == [t |-> "dict", d |-> d]

\* Whitespace between JSON tokens is insignificant.
Significant(t) == SelectSeq(t, LAMBDA x : x.k # "ws")

\* { member , member , ... }
IsObjectText(u) ==
  /\ Len(u) >= 2
  /\ u[1].k = "{"
  /\ u[Len(u)].k = "}"
  /\ (Len(u) = 2 \/ Len(u) % 2 = 1)
  /\ \A i \in 2..(Len(u) - 1) : u[i].k = (IF i % 2 = 0 THEN "member" ELSE ",")

\* The dict of an object text: a repeated key keeps its last value.
ObjectOf(u) ==
  LET at   == {i \in 2..(Len(u) - 1) : u[i].k = "member"}
      keys == {u[i].key : i \in at}
      last(key) == CHOOSE i \in at :
                     /\ u[i].key = key
                     /\ \A j \in at : u[j].key = key => j <= i
  IN  [key \in keys |-> u[last(key)].v]

json_loads(text) ==
  LET u == Significant(text)
  IN  IF Len(u) = 1 /\ u[1].k = "value" THEN Return(u[1].v)
      ELSE IF IsObjectText(u) THEN Return(Dict(ObjectOf(u)))
      ELSE Raise("JSONDecodeError", Message("Expecting value"))

\* ------------------------------------------------------------ analyzer.py

VARIABLES
  pc,            \* where the process is: start, crashed, idle, upload, analyzed, responded
  mapping_data,  \* self.mapping_data: the catalog, key -> [department, responsible]
  tmp_file,      \* whether the temporary copy of the upload exists
  response,      \* what the model call gave: Return(text) or Raise(...)
  result,        \* how analyzer.analyze_image ended: Return(dict) or Raise(...)
  http,          \* the HTTP response of the endpoint
  log            \* levels logged by the analyzer while the request was served

vars == <<pc, mapping_data, tmp_file, response, result, http, log>>

\* self.VALID_ISSUE_TYPES = list(self.mapping_data.keys())
VALID_ISSUE_TYPES == DOMAIN mapping_data

VALID_SEVERITY == {"high", "medium", "low", "none"}

required_keys == <<"issue_type", "severity", "confidence", "description">>

TypeName(v) ==
  CASE v.t = "num"  -> "int"
    [] v.t = "null" -> "NoneType"
    [] v.t = "list" -> "list"
    [] v.t = "str"  -> "str"
    [] OTHER        -> "dict"

\* key in data
KeyIn(key, data) ==
  CASE data.t = "dict" -> Return(key \in DOMAIN data.d)
    [] data.t = "list" ->
         Return(\E i \in 1..Len(data.items) : data.items[i] = JStr(Str(key)))
    [] data.t = "str"  -> Return(Contains(data.s, Str(key)))
    [] OTHER ->
         Raise("TypeError", Format("argument of type '{type}' is not iterable",
                                    TypeName(data), "nothing", <<>>))

\* for key in required_keys: if key not in data: raise APIResponseError(...)
RECURSIVE check_required(_, _)
check_required(data, i) ==
  IF i > Len(required_keys) THEN Return(data)
  ELSE LET found == KeyIn(required_keys[i], data)
       IN  IF found.raised THEN found
           ELSE IF ~found.value
                THEN Raise("APIResponseError",
                           Format("API response missing required key: '{key}'. Response: {data}",
                                  required_keys[i], "data", data))
                ELSE check_required(data, i + 1)

\* data[key]
Subscript(data, key) ==
  IF data.t = "dict" THEN Return(data.d[key])
  ELSE Raise("TypeError",
             Format("{type} indices must be integers", TypeName(data), "nothing", <<>>))

\* value in VALID_ISSUE_TYPES, a list of str
InValidIssueTypes(v) == IsStr(v) /\ \E key \in VALID_ISSUE_TYPES : Str(key) = v.s

\* _validate_ai_response(response_text): Return(data) or Raise(exception).
validate_ai_response(response_text) ==
  LET parsed == json_loads(CleanText(response_text))
  IN  IF parsed.raised
      THEN Raise("APIResponseError",
                 Format("Failed to decode API response as JSON. Response: {response_text}",
                        "", "response_text", response_text))
      ELSE LET checked == check_required(parsed.value, 1)
           IN  IF checked.raised THEN checked
               ELSE LET label == Subscript(checked.value, "issue_type")
                    IN  IF label.raised THEN label
                        ELSE Return(checked.value)

\* Whether _validate_ai_response logs its warning for response_text.
WarnsUnexpectedLabel(response_text) ==
  LET v == validate_ai_response(response_text)
  IN  ~v.raised /\ ~InValidIssueTypes(v.value.d["issue_type"])

\* The value of "department" and "responsible" when the catalog has none.
NotAvailable == JStr(<<"N/A">>)

\* self.mapping_data.get(issue_type, {}) and the two .get(..., "N/A")
lookup_routing(issue_type) ==
  IF issue_type.t = "list"
  THEN Raise("TypeError", Format("unhashable type: '{type}'", "list", "nothing", <<>>))
  ELSE IF InValidIssueTypes(issue_type)
       THEN LET key == CHOOSE k \in VALID_ISSUE_TYPES : Str(k) = issue_type.s
            IN  Return([department  |-> JStr(mapping_data[key].department),
                        responsible |-> JStr(mapping_data[key].responsible)])
       ELSE Return([department |-> NotAvailable, responsible |-> NotAvailable])

\* The merge with the model's keys last: {"department": ..., **ai_result}.
final_result_model_last(ai_result, routing) ==
  [key \in DOMAIN ai_result \cup {"department", "responsible"} |->
     IF key \in DOMAIN ai_result THEN ai_result[key]
     ELSE IF key = "department" THEN routing.department
     ELSE routing.responsible]

\* {**ai_result, "department": ..., "responsible": ...}
final_result(ai_result, routing) ==
  [key \in DOMAIN ai_result \cup {"department", "responsible"} |->
     CASE key = "department"  -> routing.department
       [] key = "responsible" -> routing.responsible
       [] OTHER               -> ai_result[key]]

\* The statements of analyze_image inside its try, given what the model
\* call gave: Return(final_result) or Raise(exception).
analyze_image_try(outcome) ==
  IF outcome.raised THEN outcome
  ELSE LET ai_result == validate_ai_response(outcome.value)
       IN  IF ai_result.raised THEN ai_result
           ELSE LET routing == lookup_routing(ai_result.value.d["issue_type"])
                IN  IF routing.raised THEN routing
                    ELSE Return(final_result(ai_result.value.d, routing.value))

\* analyze_image catching APIResponseError alone.
analyze_image_catching_response_errors(outcome) ==
  LET r == analyze_image_try(outcome)
  IN  IF r.raised /\ r.exc.type = "APIResponseError"
      THEN Return([key \in {"error"} |-> r.exc.msg])
      ELSE r

\* except Exception as e: return {"error": str(e)}
analyze_image(outcome) ==
  LET r == analyze_image_try(outcome)
  IN  IF r.raised THEN Return([key \in {"error"} |-> r.exc.msg]) ELSE r

\* ---------------------------------------------------------------- main.py

ISSUE_TYPE_MAP ==
  [key \in {"damaged_road", "pothole", "waste_dump", "streetlight_fault",
            "water_leak", "graffiti", "sewage_overflow", "tree_fall",
            "drainage_block", "unknown_issue"} |->
     CASE key = "damaged_road"      -> <<"Pothole", " ", "/", " ", "Damaged", " ", "Road">>
       [] key = "pothole"           -> <<"Pothole">>
       [] key = "waste_dump"        -> <<"Garbage", " ", "/", " ", "Waste", " ", "Dump">>
       [] key = "streetlight_fault" -> <<"Streetlight", " ", "not", " ", "working">>
       [] key = "water_leak"        -> <<"Water", " ", "Leakage">>
       [] key = "graffiti"          -> <<"Graffiti">>
       [] key = "sewage_overflow"   -> <<"Sewage", " ", "Overflow">>
       [] key = "tree_fall"         -> <<"Fallen", " ", "Tree">>
       [] key = "drainage_block"    -> <<"Blocked", " ", "Drainage">>
       [] OTHER                     -> <<"Unidentified", " ", "Issue">>]

SEVERITY_MESSAGES ==
  [key \in {"low", "medium", "high"} |->
     CASE key = "low"    -> <<"It is not urgent but should be resolved soon.">>
       [] key = "medium" -> <<"It may cause inconvenience if not fixed in time.">>
       [] OTHER          -> <<"It is critical and needs urgent attention.">>]

\* table.get(s, default), for a table keyed by str and a str s
GetStr(table, s, default) ==
  IF \E key \in DOMAIN table : Str(key) = s
  THEN table[CHOOSE key \in DOMAIN table : Str(key) = s]
  ELSE default

NoAttribute(v, attr) ==
  Raise("AttributeError",
        Format("'{type}' object has no attribute '{attr}'", attr, "type", TypeName(v)))

\* ISSUE_TYPE_MAP.get(issue_type, issue_type.replace("_", " ").capitalize())
readable_issue(issue_type) ==
  IF ~IsStr(issue_type) THEN NoAttribute(issue_type, "replace")
  ELSE Return(GetStr(ISSUE_TYPE_MAP, issue_type.s,
                     capitalize(replace_underscore(issue_type.s))))

\* SEVERITY_MESSAGES.get(result.get("severity", "medium").lower(), ...)
severity_msg(severity) ==
  IF ~IsStr(severity) THEN NoAttribute(severity, "lower")
  ELSE Return(GetStr(SEVERITY_MESSAGES, lower(severity.s),
                     <<"Severity not specified.">>))

\* The description without the .strip().
natural_description_unstripped(description, label, advisory) ==
  IF ~IsStr(description) THEN NoAttribute(description, "strip")
  ELSE IF description.s # <<>> THEN Return(description.s)
       ELSE Return(<<"A", " ">> \o lower(label)
                     \o <<" ", "was", " ", "detected.", " ">> \o advisory)

\* result["description"] after the fallback
natural_description(description, label, advisory) ==
  IF ~IsStr(description) THEN NoAttribute(description, "strip")
  ELSE IF strip(description.s) # <<>> THEN Return(strip(description.s))
       ELSE Return(<<"A", " ">> \o lower(label)
                     \o <<" ", "was", " ", "detected.", " ">> \o advisory)

Get(d, key, default) == IF key \in DOMAIN d THEN d[key] ELSE default

\* The statements of the endpoint's try from the call of
\* analyzer.analyze_image on, given how that call ended:
\* Return(content of the JSONResponse) or Raise(exception).  The text of
\* HTTPException(status_code=500, detail="Analysis failed.") is its status
\* and detail.
endpoint_try(call) ==
  IF call.raised THEN call
  ELSE IF "error" \in DOMAIN call.value
  THEN Raise("HTTPException", Message("500: Analysis failed."))
  ELSE LET r          == call.value
           issue_type == Get(r, "issue_type", JStr(Str("unknown_issue")))
           label      == readable_issue(issue_type)
           advisory   == severity_msg(Get(r, "severity", JStr(Str("medium"))))
           described  == IF label.raised \/ advisory.raised THEN label
                         ELSE natural_description(Get(r, "description", JStr(<<>>)),
                                                  label.value, advisory.value)
       IN  IF label.raised THEN label
           ELSE IF advisory.raised THEN advisory
           ELSE IF described.raised THEN described
           ELSE Return([key \in DOMAIN r \cup {"issue_label"} |->
                          CASE key = "issue_type"  -> issue_type
                            [] key = "issue_label" -> JStr(label.value)
                            [] key = "description" -> JStr(described.value)
                            [] OTHER               -> r[key]])

\* The except clauses of the endpoint, and the response FastAPI sends.
endpoint_response(call) ==
  LET t == endpoint_try(call)
  IN  IF ~t.raised THEN [status |-> 200, content |-> t.value]
      ELSE IF t.exc.type \in {"ConfigurationError", "APIResponseError"}
      THEN [status |-> 400, detail |-> Message("Configuration or API error.")]
      ELSE [status |-> 500,
            detail |-> Format("Unexpected server error: {str(e)}", "", "exception", t.exc.msg)]

\* ------------------------------------------------------------------ inputs

\* What the mapping file can hold at start-up.
CatalogA ==
  [key \in {"pothole", "waste_dump"} |->
     IF key = "pothole"
     THEN [department |-> <<"Public Works">>, responsible |-> <<"Road Engineer">>]
     ELSE [department |-> <<"Sanitation">>,   responsible |-> <<"Health Officer">>]]

CatalogB ==
  [key \in {"pothole", "graffiti"} |->
     IF key = "pothole"
     THEN [department |-> <<"Roads Division">>, responsible |-> <<"Site Supervisor">>]
     ELSE [department |-> <<"Municipal Office">>, responsible |-> <<"Ward Officer">>]]

MappingFiles ==
  {[state |-> "missing",   data |-> <<>>],
   [state |-> "malformed", data |-> <<>>],
   [state |-> "loaded",    data |-> CatalogA],
   [state |-> "loaded",    data |-> CatalogB]}

ApiKeys == {"", "secret"}

max_file_size == 5 * 1024 * 1024

Uploads ==
  [suffix : {".jpg", ".JPG", ".png", ".gif", ""},
   size   : {1024, max_file_size, max_file_size + 1}]

allowed_extensions == {".jpg", ".jpeg", ".png", ".webp"}

\* The values a model response gives each key; <<>> leaves the key out.
Optional(key, values) == {<<>>} \cup {<<Member(key, v)>> : v \in values}

IssueTypeMembers ==
  Optional("issue_type",
           {JStr(Str("pothole")), JStr(Str("waste_dump")),
            JStr(Str("spaceship_crash")), JNum(5), JList(<<>>)})

SeverityMembers ==
  Optional("severity",
           {JStr(<<"high">>), JStr(<<"medium">>), JStr(<<"none">>),
            JStr(<<"HIGH">>), JStr(<<"critical">>), JNum(5)})

Confidences == {50 * k - 50 : k \in 0..ConfSteps}

ConfidenceMembers == Optional("confidence", {JNum(c) : c \in Confidences})

DescriptionMembers ==
  Optional("description",
           {JStr(<<>>), JStr(<<" ">>),
            JStr(<<" ", "Large", " ", "pothole.", "\n">>), JNull})

ExtraMembers ==
  {<<>>,
   <<Member("error", JStr(<<"boom">>))>>,
   <<Member("department", JStr(<<"Mayor">>))>>}

\* member , member , ...
RECURSIVE Separated(_)
Separated(ms) ==
  IF Len(ms) <= 1 THEN ms ELSE <<Head(ms), Comma>> \o Separated(Tail(ms))

ObjectText(ms) == <<LBrace>> \o Separated(ms) \o <<RBrace>>

\* The text of every JSON object the model is taken to answer with.
ObjectTexts ==
  {ObjectText(i \o s \o c \o d \o x) :
     i \in IssueTypeMembers, s \in SeverityMembers, c \in ConfidenceMembers,
     d \in DescriptionMembers, x \in ExtraMembers}

KeyList == [i \in 1..Len(required_keys) |-> JStr(Str(required_keys[i]))]

\* JSON texts that are not an object.
OtherJsonTexts ==
  {<<Value(JNum(5))>>, <<Value(JNull)>>, <<Value(JList(<<>>))>>,
   <<Value(JList(KeyList))>>,
   <<Value(JStr(Str("issue_type") \o <<" ", "severity", " ", "confidence",
                                       " ", "description">>))>>,
   <<Value(JStr(<<"pothole">>))>>}

\* An object whose issue_type is given twice.
RepeatedKeyText ==
  ObjectText(<<Member("issue_type", JStr(Str("spaceship_crash"))),
               Member("issue_type", JStr(Str("pothole"))),
               Member("severity", JStr(<<"high">>)),
               Member("confidence", JNum(92)),
               Member("description", JStr(<<"Large", " ", "pothole.">>))>>)

\* Texts that are not JSON.
MalformedTexts ==
  {<<>>,
   <<Word("Sorry,"), Ws(" "), Word("no"), Ws(" "), Word("image.")>>,
   <<LBrace, Member("issue_type", JStr(Str("pothole")))>>,
   <<LBrace, Member("issue_type", JStr(Str("pothole"))), Comma, RBrace>>,
   <<Word("json")>> \o RepeatedKeyText,
   RepeatedKeyText \o <<Ws(" "), Word("Done.")>>}

Pad(n) == [i \in 1..n |-> Ws(IF i % 2 = 1 THEN "\n" ELSE " ")]

\* text inside a code fence of the given kind and n whitespace characters.
Wrap(kind, n, text) ==
  CASE kind = "json"  ->
         Pad(n) \o <<Fence, Word("json")>> \o Pad(n) \o text \o Pad(n) \o <<Fence>> \o Pad(n)
    [] kind = "plain" ->
         Pad(n) \o <<Fence>> \o Pad(n) \o text \o Pad(n) \o <<Fence>> \o Pad(n)
    [] OTHER          -> Pad(n) \o text \o Pad(n)

Wraps == {"none", "json", "plain"} \X (0..MaxPad)

BareTexts == ObjectTexts \cup OtherJsonTexts \cup {RepeatedKeyText} \cup MalformedTexts

ResponseTexts == {Wrap(w[1], w[2], text) : w \in Wraps, text \in BareTexts}

\* What the call of the model can give: a text, or an exception (the image
\* cannot be opened, the service refuses or cannot be reached).
ModelOutcomes ==
  {Return(text) : text \in ResponseTexts}
  \cup {Raise("UnidentifiedImageError", Message("cannot identify image file")),
        Raise("ResourceExhausted", Message("429 Quota exceeded"))}

\* ----------------------------------------------------------------- actions

NoResponse == Raise("none", Message(""))
NoResult   == Raise("none", Message(""))
NoHttp     == [status |-> 0]

Init ==
  /\ pc = "start"
  /\ mapping_data = <<>>
  /\ tmp_file = FALSE
  /\ response = NoResponse
  /\ result = NoResult
  /\ http = NoHttp
  /\ log = {}

\* main.py at import: the API key is read and the analyzer constructed.
Startup ==
  /\ pc = "start"
  /\ \E api_key \in ApiKeys, mapping_file \in MappingFiles :
     IF api_key = "" \/ mapping_file.state # "loaded"
     THEN /\ pc' = "crashed"
          /\ mapping_data' = mapping_data
          /\ log' = log
     ELSE /\ pc' = "idle"
          /\ mapping_data' = mapping_file.data
          /\ log' = log
  /\ UNCHANGED <<tmp_file, response, result, http>>

\* GET /
Root ==
  /\ pc = "idle"
  /\ pc' = "responded"
  /\ http' = [status |-> 200, content |-> Message("Indian Civic Issue Analyzer API is running")]
  /\ UNCHANGED <<mapping_data, tmp_file, response, result, log>>

\* POST /analyze up to the temporary file: the gate on type and size.
ReceiveUpload ==
  /\ pc = "idle"
  /\ \E file \in Uploads :
     IF LowerWord(file.suffix) \notin allowed_extensions
     THEN /\ pc' = "responded"
          /\ http' = [status |-> 400,
                      detail |-> Message("Invalid file type. Only images are allowed.")]
          /\ tmp_file' = FALSE
     ELSE IF file.size > max_file_size
     THEN /\ pc' = "responded"
          /\ http' = [status |-> 400, detail |-> Message("File too large. Max size is 5MB.")]
          /\ tmp_file' = FALSE
     ELSE /\ pc' = "upload"
          /\ http' = http
          /\ tmp_file' = TRUE
  /\ UNCHANGED <<mapping_data, response, result, log>>

\* analyzer.analyze_image(tmp_file_path), with what the model gives.
AnalyzeImage ==
  /\ pc = "upload"
  /\ \E outcome \in ModelOutcomes :
       /\ response' = outcome
       /\ result' = analyze_image(outcome)
       /\ log' = (IF ~outcome.raised /\ WarnsUnexpectedLabel(outcome.value)
                  THEN {"warning"} ELSE {})
                 \cup (IF analyze_image_try(outcome).raised THEN {"error"} ELSE {})
  /\ pc' = "analyzed"
  /\ UNCHANGED <<mapping_data, tmp_file, http>>

\* POST /analyze after the analysis: clean-up, labels, description, response.
Respond ==
  /\ pc = "analyzed"
  /\ pc' = "responded"
  /\ tmp_file' = result.raised
  /\ http' = endpoint_response(result)
  /\ UNCHANGED <<mapping_data, response, result, log>>

\* The request is over: nothing of it is kept.
Complete ==
  /\ pc = "responded"
  /\ pc' = "idle"
  /\ tmp_file' = FALSE
  /\ response' = NoResponse
  /\ result' = NoResult
  /\ http' = NoHttp
  /\ log' = {}
  /\ UNCHANGED mapping_data

Next ==
  \/ Startup
  \/ Root
  \/ ReceiveUpload
  \/ AnalyzeImage
  \/ Respond
  \/ Complete

Spec == Init /\ [][Next]_vars

\* ------------------------------------------------------------------ claims

\* analyzer.analyze_image has returned or raised for this request.
Analyzed == pc = "analyzed"

\* The endpoint has answered a request that reached the analyzer.
Served == pc = "responded" /\ (result.raised => result.exc.type # "none")

\* The model answered with a text (the call of the model did not fail).
GotText == ~response.raised

\* What json.loads makes of the cleaned text of the model's answer.
Parsed == json_loads(CleanText(response.value))

GotData == GotText /\ ~Parsed.raised

GotObject == GotData /\ Parsed.value.t = "dict"

RequiredKeys == {required_keys[i] : i \in 1..Len(required_keys)}

HasAllFields == GotObject /\ RequiredKeys \subseteq DOMAIN Parsed.value.d

\* The value the model gave for a key (of an object).
Given(key) == Parsed.value.d[key]

IsErrorMarker(r) == DOMAIN r = {"error"}

IsCompleteRecord(r) == RequiredKeys \cup {"department", "responsible"} \subseteq DOMAIN r

Returned == Analyzed /\ ~result.raised

Succeeded == Returned /\ IsCompleteRecord(result.value)

Failed == Returned /\ IsErrorMarker(result.value)

CatalogKey(v) == IsStr(v) /\ \E key \in DOMAIN mapping_data : Str(key) = v.s

\* C1: whenever the model's output has the four required fields and an
\* issue_type (a string) that is no key of the loaded catalog, analyze_image
\* returns a record and its issue_type is "unknown_issue".
C1_OutOfCatalogRewritten ==
  (Analyzed /\ HasAllFields /\ IsStr(Given("issue_type"))
     /\ ~CatalogKey(Given("issue_type")))
  => /\ Succeeded
     /\ result.value["issue_type"] = JStr(Str("unknown_issue"))

\* The first of the required fields, in the check order, that data lacks;
\* a value that is no object has no field at all.
FirstMissing(data) ==
  LET lacks(i) == data.t # "dict" \/ required_keys[i] \notin DOMAIN data.d
  IN  required_keys[CHOOSE i \in 1..Len(required_keys) :
                      lacks(i) /\ \A j \in 1..(i - 1) : ~lacks(j)]

\* C2: whenever the parsed output of the model lacks one of the four required
\* fields, analyze_image returns the error outcome, and the error is the
\* response error that names the first missing field.
C2_MissingFieldNamed ==
  (Analyzed /\ GotData /\ ~HasAllFields)
  => /\ Failed
     /\ result.value["error"].fmt
          = "API response missing required key: '{key}'. Response: {data}"
     /\ result.value["error"].name = FirstMissing(Parsed.value)

\* C3: every call of analyze_image returns (no exception leaves it), and
\* what it returns is either a complete record or an error marker, never
\* both and never something else.
C3_TwoShapeOutcome ==
  Analyzed
  => /\ ~result.raised
     /\ IsCompleteRecord(result.value) # IsErrorMarker(result.value)
     /\ IsCompleteRecord(result.value) => HasAllFields

\* analyze_image has answered an output that is no object, or whose
\* issue_type is a list, with an error marker.
C3_Witness ==
  /\ Failed
  /\ GotData
  /\ \/ Parsed.value.t # "dict"
     \/ HasAllFields /\ Given("issue_type").t = "list"

\* C4: the message of an error outcome is the same generic message whatever
\* failed: it shows neither the text of the exception nor the model's output.
C4_ErrorMarkerGeneric ==
  Failed
  => /\ result.value["error"].fmt = "Analysis failed."
     /\ result.value["error"].shows = "nothing"

C6_SeverityNormalized ==
  (Analyzed /\ HasAllFields /\ IsStr(Given("issue_type"))
     /\ IsStr(Given("severity")))
  => /\ Succeeded
     /\ result.value["severity"] \in {JStr(<<sev>>) : sev \in VALID_SEVERITY}
     /\ Given("severity") \notin {JStr(<<sev>>) : sev \in VALID_SEVERITY}
          => result.value["severity"] = JStr(<<"medium">>)

Clamp(c) == IF c < 0 THEN 0 ELSE IF c > 100 THEN 100 ELSE c

\* C7: the confidence of every record analyze_image returns lies in
\* [0.0, 1.0]: the model's confidence clamped into that range.
C7_ConfidenceClamped ==
  (Analyzed /\ HasAllFields /\ IsStr(Given("issue_type"))
     /\ Given("confidence").t = "num")
  => /\ Succeeded
     /\ result.value["confidence"] = JNum(Clamp(Given("confidence").n))

\* C8: when the analysis failed because the model's output is malformed JSON
\* or an object that lacks a required field, the endpoint answers 400.
C8_ValidationFailureIs400 ==
  (Served /\ GotText /\ (Parsed.raised \/ (GotObject /\ ~HasAllFields)))
  => http.status = 400

\* The label of a category: the label table's entry, or the key with its
\* underscores replaced by spaces and capitalized.
LabelOf(s) ==
  IF \E key \in DOMAIN ISSUE_TYPE_MAP : Str(key) = s
  THEN ISSUE_TYPE_MAP[CHOOSE key \in DOMAIN ISSUE_TYPE_MAP : Str(key) = s]
  ELSE capitalize(replace_underscore(s))

\* The advisory of a severity, whatever its case.
AdvisoryOf(s) ==
  CASE lower(s) = <<"low">>    -> SEVERITY_MESSAGES["low"]
    [] lower(s) = <<"medium">> -> SEVERITY_MESSAGES["medium"]
    [] lower(s) = <<"high">>   -> SEVERITY_MESSAGES["high"]
    [] OTHER                   -> <<"Severity not specified.">>

IsBlank(s) == \A i \in 1..Len(s) : IsSpace(s[i])

\* C9: the description of every successful response is a non-empty string:
\* the model's description trimmed, or, when that is empty, the sentence made
\* of the category's label and the advisory of the severity.
C9_DescriptionNonEmpty ==
  (Served /\ http.status = 200)
  => LET given == Given("description").s
         shown == http.content["description"]
     IN  /\ IsStr(shown)
         /\ shown.s # <<>>
         /\ ~IsBlank(given)
              => /\ shown.s = strip(given)
                 /\ ~IsSpace(Head(shown.s))
                 /\ ~IsSpace(shown.s[Len(shown.s)])
         /\ IsBlank(given)
              => shown.s = <<"A", " ">> \o lower(LabelOf(Given("issue_type").s))
                             \o <<" ", "was", " ", "detected.", " ">>
                             \o AdvisoryOf(Given("severity").s)

\* A blank description answered with the sentence for a category without a
\* label and a severity without an advisory.
C9_Witness ==
  /\ Served
  /\ http.status = 200
  /\ Given("description") = JStr(<<" ">>)
  /\ http.content["description"]
       = JStr(<<"A", " ", "spaceship", " ", "crash", " ", "was", " ",
                "detected.", " ", "Severity not specified.">>)

\* Two calls of analyze_image ended the same way.
SameEnd(a, b) ==
  /\ a.raised = b.raised
  /\ ~a.raised /\ ~b.raised
       => /\ DOMAIN a.value = DOMAIN b.value
          /\ IsErrorMarker(a.value) /\ IsErrorMarker(b.value)
               => /\ a.value["error"].fmt = b.value["error"].fmt
                  /\ a.value["error"].name = b.value["error"].name
                  /\ a.value["error"].shows = b.value["error"].shows
                  /\ a.value["error"].shows = "data"
                       => a.value["error"].shown = b.value["error"].shown
          /\ ~IsErrorMarker(a.value) /\ DOMAIN a.value = DOMAIN b.value
               => a.value = b.value

\* C10: the text of a JSON object fares the same inside a code fence, with or
\* without the json tag, and between whitespace, as it fares alone; and a
\* text that is not JSON once fence and whitespace are stripped is answered
\* with the response error for undecodable JSON, never with a record.
C10_WrappingIgnored ==
  (Analyzed /\ GotText)
  => /\ IsObjectText(response.value)
          => \A w \in Wraps :
               /\ SameEnd(analyze_image(Return(Wrap(w[1], w[2], response.value))),
                          result)
               /\ validate_ai_response(Wrap(w[1], w[2], response.value)).raised
                    = validate_ai_response(response.value).raised
     /\ Parsed.raised
          => /\ Failed
             /\ validate_ai_response(response.value).exc.type = "APIResponseError"
             /\ result.value["error"].fmt
                  = "Failed to decode API response as JSON. Response: {response_text}"

\* A complete object, alone, for which analyze_image returned a record.
C10_Witness ==
  /\ Succeeded
  /\ IsObjectText(response.value)
  /\ Given("issue_type") = JStr(Str("pothole"))

====
